---- MODULE Spec2Model ----
(***************************************************************************)
(* Model of src/main.py (class ADBApp): the UI-thread handlers load_apk,   *)
(* check_loaded_apk, update_device_list and send_command, and the worker   *)
(* thread body run_command with install_apk_from_memory.                   *)
(*                                                                         *)
(* The device bridge (adbutils), the adb binary and the file dialog are    *)
(* external: every call into them returns one of a small set of texts or   *)
(* raises, chosen nondeterministically.  Each external call of run_command *)
(* is one step of the worker thread, so UI-thread handlers and other       *)
(* worker threads interleave between any two calls.                        *)
(*                                                                         *)
(* Spec runs at most MaxThreads passes at once; SpecConc one more.         *)
(*                                                                         *)
(* Not modelled: update_device_list, add_device_entry and                  *)
(* get_installed_version, which only query devices and rebuild widgets;    *)
(* the text of the log; closeEvent, after which the process exits.         *)
(***************************************************************************)
EXTENDS Naturals, Integers, Sequences, FiniteSets

\* ---- bounds of the model ----
MaxDevices == 2     \* most devices adbutils.adb.device_list() returns
MaxThreads == 1     \* most run_command threads alive at once under Spec
MaxLoads == 2       \* most temporary files NamedTemporaryFile creates

\* self.temp_apk_path = None
None == 0

\* thread slots: SpecConc lets one more thread run than Spec does
Threads == 1..(MaxThreads + 1)
Paths == 1..MaxLoads

\* ---- texts, as sequences of characters ----
NeedleOwner == <<"D","e","v","i","c","e"," ","O","w","n","e","r",":">>
NeedlePkg == <<"c","o","m",".","h","m","d","m",".","l","a","u","n","c","h","e","r">>
NeedleError == <<"e","r","r","o","r">>
NeedleFailure == <<"f","a","i","l","u","r","e">>

DumpOwner == <<"D","e","v","i","c","e"," ","O","w","n","e","r",":"," ","x">>
DumpLower == <<"d","e","v","i","c","e"," ","o","w","n","e","r",":"," ","x">>
DumpNone == <<"n","o"," ","o","w","n","e","r">>
DumpTexts == {DumpOwner, DumpLower, DumpNone, <<>>}

PkgsWith == <<"p","a","c","k","a","g","e",":","c","o","m",".","h","m","d","m",".","l","a","u","n","c","h","e","r">>
PkgsOther == <<"p","a","c","k","a","g","e",":","c","o","m",".","h","m","d","m",".","l","a","u","n","c","h">>
PkgTexts == {PkgsWith, PkgsOther, <<>>}

OutSuccess == <<"S","u","c","c","e","s","s">>
OutError == <<"E","r","r","o","r",":"," ","x">>
OutFAILURE == <<"F","A","I","L","U","R","E">>
OutMixed == <<"j","a","v","a",":"," ","F","a","i","l","u","r","e">>
OwnerOutputs == {OutSuccess, OutError, OutFAILURE, OutMixed, <<>>}

\* needle in text (Python's `in` on str)
Contains(needle, text) ==
    \E i \in 1..(Len(text) + 1) :
        /\ i + Len(needle) - 1 <= Len(text)
        /\ SubSeq(text, i, i + Len(needle) - 1) = needle

UpperChars == <<"A","B","C","D","E","F","G","H","I","J","K","L","M","N","O","P","Q","R","S","T","U","V","W","X","Y","Z">>
LowerChars == <<"a","b","c","d","e","f","g","h","i","j","k","l","m","n","o","p","q","r","s","t","u","v","w","x","y","z">>

LowerChar(c) ==
    IF \E k \in 1..Len(UpperChars) : UpperChars[k] = c
    THEN LowerChars[CHOOSE k \in 1..Len(UpperChars) : UpperChars[k] = c]
    ELSE c

\* str.lower()
Lower(text) == [i \in 1..Len(text) |-> LowerChar(text[i])]

\* "Device Owner:" in dump
OwnerSet(dump) == Contains(NeedleOwner, dump)

\* "com.hmdm.launcher" in pkg_list
PkgInstalled(pkg_list) == Contains(NeedlePkg, pkg_list)

\* "error" in output.lower() or "failure" in output.lower()
OwnerCmdFailed(output) ==
    Contains(NeedleError, Lower(output)) \/ Contains(NeedleFailure, Lower(output))

VARIABLES
    temp_apk_path,   \* self.temp_apk_path: None or the name of a temporary file
    files,           \* the temporary files named so far that exist on disk
    command_button,  \* self.command_button.isEnabled()
    apk_indicator,   \* colour of self.apk_indicator
    pc,              \* per thread: the call run_command is about to make
    devices,         \* per thread: the list device_list() returned to the pass
    idx,             \* per thread: enumerate index of the device being processed
    local_path,      \* per thread: argument local_path of install_apk_from_memory
    apk_checked,     \* per thread: the value of temp_apk_path that passed the test of line 267
    last,            \* per thread: the last call made or signal emitted, and its outcome
    cur              \* per thread: summary of the device processed last (see NewDevice)

vars == <<temp_apk_path, files, command_button, apk_indicator,
          pc, devices, idx, local_path, apk_checked, last, cur>>

uiVars == <<temp_apk_path, files, command_button, apk_indicator>>
threadVars == <<pc, devices, idx, local_path, apk_checked, last, cur>>

\* os.path.exists(path) for a temporary path
Exists(path, fs) == path \in fs

\* a test that forgets os.path.exists
NoApkLoadedNoneOnly(path, fs) == path = None

\* not self.temp_apk_path or not os.path.exists(self.temp_apk_path)
NoApkLoaded(path, fs) == path = None \/ ~Exists(path, fs)

\* check_loaded_apk: the enabled state it gives the command button
ButtonAfterCheck(path, fs) == ~NoApkLoaded(path, fs)

\* check_loaded_apk: the colour it gives the indicator
IndicatorAfterCheck(path, fs) == IF NoApkLoaded(path, fs) THEN "red" ELSE "green"

Ev(cmd, out) == <<cmd, out>>

\* what the pass has done for one device so far:
\*   first   outcome of the first owner query ("none" before it returns)
\*   failed  the set-owner output contained error/failure
\*   kills   adb kill-server attempts made while on this device
\*   emits   update_devices_signal emissions made for this device
NewDevice == [first |-> "none", failed |-> FALSE, kills |-> 0, emits |-> 0]

Init ==
    /\ temp_apk_path = None
    /\ files = {}
    /\ command_button = FALSE
    /\ apk_indicator = "red"
    /\ pc = [w \in Threads |-> "idle"]
    /\ devices = [w \in Threads |-> <<>>]
    /\ idx = [w \in Threads |-> 0]
    /\ local_path = [w \in Threads |-> None]
    /\ apk_checked = [w \in Threads |-> None]
    /\ last = [w \in Threads |-> Ev("none", "none")]
    /\ cur = [w \in Threads |-> NewDevice]

\* ---- UI thread ----

\* the files left after lines 102-106: the previous temporary file is removed
\* unless os.remove raises
AfterRemove(removeOk) ==
    IF temp_apk_path # None /\ Exists(temp_apk_path, files) /\ removeOk
    THEN files \ {temp_apk_path}
    ELSE files

\* load_apk, file chosen, the copy succeeds: lines 100-115 and check_loaded_apk.
\* NamedTemporaryFile gives a name not used before.
load_apk_ok ==
    /\ temp_apk_path < MaxLoads
    /\ \E removeOk \in BOOLEAN :
        LET new == temp_apk_path + 1
            fs == AfterRemove(removeOk) \cup {new}
        IN  /\ files' = fs
            /\ temp_apk_path' = new
            /\ command_button' = ButtonAfterCheck(new, fs)
            /\ apk_indicator' = IndicatorAfterCheck(new, fs)
    /\ UNCHANGED threadVars

\* load_apk, file chosen, the try block of lines 108-115 raises (line 116):
\* temp_apk_path keeps its value and check_loaded_apk is not called.  A
\* temporary file the failed copy leaves behind is named by no variable of the
\* program, so files does not hold it.
load_apk_fail ==
    /\ \E removeOk \in BOOLEAN : files' = AfterRemove(removeOk)
    /\ UNCHANGED <<temp_apk_path, command_button, apk_indicator, threadVars>>

\* load_apk: the handler of load_apk_button.clicked.  A cancelled dialog
\* (file_path empty, line 100) changes nothing.
load_apk ==
    \/ load_apk_ok
    \/ load_apk_fail

\* send_command under a cap of maxRunning live threads: the button's clicked
\* signal, which only an enabled button emits, starts a thread on run_command
send_command(maxRunning) ==
    /\ command_button
    /\ Cardinality({v \in Threads : pc[v] # "idle"}) < maxRunning
    /\ \E w \in Threads :
        /\ pc[w] = "idle"
        /\ \A v \in Threads : v < w => pc[v] # "idle"
        /\ pc' = [pc EXCEPT ![w] = "start"]
        /\ devices' = [devices EXCEPT ![w] = <<>>]
        /\ idx' = [idx EXCEPT ![w] = 0]
        /\ local_path' = [local_path EXCEPT ![w] = None]
        /\ apk_checked' = [apk_checked EXCEPT ![w] = None]
        /\ last' = [last EXCEPT ![w] = Ev("log", "starting")]
        /\ cur' = [cur EXCEPT ![w] = NewDevice]
    /\ UNCHANGED uiVars

\* ---- worker thread: run_command ----

\* the thread goes to label with its last call recorded; its locals stay
Goto(w, label, cmd, out) ==
    /\ pc' = [pc EXCEPT ![w] = label]
    /\ last' = [last EXCEPT ![w] = Ev(cmd, out)]

\* a try inside the loop: the exception ends the device, not the pass
RaiseInsideLoop(w, cmd) == Goto(w, "update_ui", cmd, "raise")

\* call cmd raised and no try encloses it but the one of line 249
Raise(w, cmd) == Goto(w, "except", cmd, "raise")

\* no skip of a device that has an owner
AfterFirstQueryNoSkip(ownerSet) == "check_apk"

\* lines 263-266: where the first owner query sends the pass
AfterFirstQuery(ownerSet) == IF ownerSet THEN "update_ui" ELSE "check_apk"

\* an uninstall without its try
AfterUninstallFatal(out) == IF out = "raise" THEN "except" ELSE "push"

\* lines 277-284: the install follows the uninstall whether or not it raised
AfterUninstall(out) == "push"

\* the loop of line 257 takes the next device, or ends and line 307 logs
NextDevice(w, cmd, out) ==
    IF idx[w] < Len(devices[w])
    THEN /\ idx' = [idx EXCEPT ![w] = @ + 1]
         /\ Goto(w, "dumpsys", cmd, out)
    ELSE /\ idx' = idx
         /\ Goto(w, "idle", "log", "all_processed")

\* lines 248-255
device_list(w) ==
    /\ pc[w] = "start"
    /\ \/ /\ Raise(w, "device_list")
          /\ UNCHANGED <<devices, idx>>
       \/ /\ Goto(w, "idle", "device_list", "empty")
          /\ UNCHANGED <<devices, idx>>
       \/ \E n \in 1..MaxDevices :
            /\ devices' = [devices EXCEPT ![w] = [i \in 1..n |-> i]]
            /\ idx' = [idx EXCEPT ![w] = 1]
            /\ Goto(w, "dumpsys", "device_list", "ok")
    /\ UNCHANGED <<local_path, apk_checked, cur, uiVars>>

\* lines 258-265: the first owner query for the device at idx
dumpsys(w) ==
    /\ pc[w] = "dumpsys"
    /\ \/ /\ Raise(w, "dumpsys")
          /\ cur' = [cur EXCEPT ![w] = NewDevice]
       \/ \E dump \in DumpTexts :
            LET first == IF OwnerSet(dump) THEN "owner" ELSE "no_owner" IN
            /\ Goto(w, AfterFirstQuery(OwnerSet(dump)), "dumpsys", first)
            /\ cur' = [cur EXCEPT ![w] = [NewDevice EXCEPT !.first = first]]
    /\ UNCHANGED <<devices, idx, local_path, apk_checked, uiVars>>

\* lines 266-271.  The condition reads self.temp_apk_path twice; once set the
\* attribute is never None again, so the two reads decide as one read does.
check_apk(w) ==
    /\ pc[w] = "check_apk"
    /\ IF NoApkLoaded(temp_apk_path, files)
       THEN /\ NextDevice(w, "check_apk", "none")       \* continue
            /\ apk_checked' = apk_checked
       ELSE /\ Goto(w, "pm_list", "check_apk", "loaded")
            /\ apk_checked' = [apk_checked EXCEPT ![w] = temp_apk_path]
            /\ idx' = idx
    /\ UNCHANGED <<devices, local_path, cur, uiVars>>

\* lines 273-276; without the package, line 284 reads self.temp_apk_path next
pm_list(w) ==
    /\ pc[w] = "pm_list"
    /\ \/ /\ Raise(w, "pm_list")
          /\ local_path' = local_path
          /\ apk_checked' = [apk_checked EXCEPT ![w] = None]
       \/ \E pkg_list \in PkgTexts :
            IF PkgInstalled(pkg_list)
            THEN /\ Goto(w, "uninstall", "pm_list", "pkg")
                 /\ UNCHANGED <<local_path, apk_checked>>
            ELSE /\ Goto(w, "push", "pm_list", "no_pkg")
                 /\ local_path' = [local_path EXCEPT ![w] = temp_apk_path]
                 /\ apk_checked' = apk_checked
    /\ UNCHANGED <<devices, idx, cur, uiVars>>

\* lines 277-281, then line 284 reads self.temp_apk_path
uninstall(w) ==
    /\ pc[w] = "uninstall"
    /\ \E out \in {"ok", "raise"} : Goto(w, AfterUninstall(out), "uninstall", out)
    /\ local_path' = [local_path EXCEPT ![w] = temp_apk_path]
    /\ UNCHANGED <<devices, idx, apk_checked, cur, uiVars>>

\* install_apk_from_memory returns to line 285: its argument is gone
Return(w) ==
    /\ local_path' = [local_path EXCEPT ![w] = None]
    /\ apk_checked' = [apk_checked EXCEPT ![w] = None]

\* an install step without its try
NotCaught(w, cmd) ==
    /\ Raise(w, cmd)
    /\ Return(w)

\* lines 332-333 and 338-339: the exception is caught and returned as text
Caught(w, cmd) ==
    /\ Goto(w, "recheck", cmd, "raise")
    /\ Return(w)

\* install_apk_from_memory, lines 329-333: device.push reads the file local_path
push(w) ==
    /\ pc[w] = "push"
    /\ \/ /\ Exists(local_path[w], files)
          /\ Goto(w, "pm_install", "push", "ok")
          /\ UNCHANGED <<local_path, apk_checked>>
       \/ Caught(w, "push")
    /\ UNCHANGED <<devices, idx, cur, uiVars>>

\* install_apk_from_memory, lines 335-341, and line 285
pm_install(w) ==
    /\ pc[w] = "pm_install"
    /\ \/ /\ Goto(w, "recheck", "pm_install", "ok")
          /\ Return(w)
       \/ Caught(w, "pm_install")
    /\ UNCHANGED <<devices, idx, cur, uiVars>>

\* lines 287-291 and 300-301
recheck(w) ==
    /\ pc[w] = "recheck"
    /\ \/ Raise(w, "recheck")
       \/ \E dump \in DumpTexts :
            IF OwnerSet(dump)
            THEN Goto(w, "update_ui", "recheck", "owner")
            ELSE Goto(w, "set_owner", "recheck", "no_owner")
    /\ UNCHANGED <<devices, idx, local_path, apk_checked, cur, uiVars>>

\* lines 292-295 and 298-299
set_owner(w) ==
    /\ pc[w] = "set_owner"
    /\ \/ /\ Raise(w, "set_owner")
          /\ cur' = cur
       \/ \E output \in OwnerOutputs :
            IF OwnerCmdFailed(output)
            THEN /\ Goto(w, "kill_server", "set_owner", "failed")
                 /\ cur' = [cur EXCEPT ![w].failed = TRUE]
            ELSE /\ Goto(w, "update_ui", "set_owner", "success")
                 /\ cur' = cur
    /\ UNCHANGED <<devices, idx, local_path, apk_checked, uiVars>>

\* lines 296-297: subprocess.run(["adb", "kill-server"]), in no try of its own
kill_server(w) ==
    /\ pc[w] = "kill_server"
    /\ \/ Raise(w, "kill_server")
       \/ Goto(w, "update_ui", "kill_server", "ok")
    /\ cur' = [cur EXCEPT ![w].kills = @ + 1]
    /\ UNCHANGED <<devices, idx, local_path, apk_checked, uiVars>>

\* lines 303-307
update_ui(w) ==
    /\ pc[w] = "update_ui"
    /\ NextDevice(w, "update_devices_signal", "emit")
    /\ cur' = [cur EXCEPT ![w].emits = @ + 1]
    /\ UNCHANGED <<devices, local_path, apk_checked, uiVars>>

\* lines 309-316: the handler's own kill-server attempt; the thread ends
except(w) ==
    /\ pc[w] = "except"
    /\ \E out \in {"ok", "raise"} : Goto(w, "idle", "handler_kill_server", out)
    /\ cur' = [cur EXCEPT ![w].kills = @ + 1]
    /\ UNCHANGED <<devices, idx, local_path, apk_checked, uiVars>>

run_command(w) ==
    \/ device_list(w)
    \/ dumpsys(w)
    \/ check_apk(w)
    \/ pm_list(w)
    \/ uninstall(w)
    \/ push(w)
    \/ pm_install(w)
    \/ recheck(w)
    \/ set_owner(w)
    \/ kill_server(w)
    \/ update_ui(w)
    \/ except(w)

Next ==
    \/ load_apk
    \/ send_command(MaxThreads)
    \/ \E w \in Threads : run_command(w)

Spec == Init /\ [][Next]_vars

NextConc ==
    \/ load_apk
    \/ send_command(MaxThreads + 1)
    \/ \E w \in Threads : run_command(w)

SpecConc == Init /\ [][NextConc]_vars

Running == {w \in Threads : pc[w] # "idle"}

\* the calls that act on the device beyond querying it
Changing == {"uninstall", "push", "pm_install", "set_owner"}

\* the calls of a pass that no try but the one of line 249 encloses
Unguarded == {"device_list", "dumpsys", "pm_list", "recheck", "set_owner", "kill_server"}

\* thread w takes a step
Steps(w) == pc'[w] # pc[w] \/ last'[w] # last[w]

\* the test of line 267, written out
ApkMissing == temp_apk_path = None \/ temp_apk_path \notin files

\* C1: while a pass is on a device whose first owner query reported
\* "Device Owner:", the pass is not at any later call for that device (package
\* query, uninstall, push, pm install, re-check, set-owner, kill-server): from
\* the query it goes to the UI refresh and on to the next device or the end.
C1_OwnerSkipsDevice ==
    \A w \in Threads :
        cur[w].first = "owner" =>
            /\ pc[w] \in {"update_ui", "dumpsys", "idle"}
            /\ last[w][1] \in {"dumpsys", "update_devices_signal", "log"}
            /\ last[w][1] \notin Changing
            /\ cur[w].kills = 0

C1_Witness ==
    \E w \in Threads :
        /\ cur[w].first = "owner"
        /\ last[w] = Ev("update_devices_signal", "emit")
        /\ pc[w] = "dumpsys"
        /\ idx[w] = 2

\* C2: when the set-owner output of a device contains error/failure, exactly
\* one adb kill-server attempt has been made once the pass has left that
\* device (it is at the UI refresh, on the next device, or has ended).
C2_ExactlyOneKill ==
    \A w \in Threads :
        (cur[w].failed /\ pc[w] \in {"update_ui", "dumpsys", "idle"}) =>
            cur[w].kills = 1

\* C3: a step of a pass that tests the APK (line 267) while temp_apk_path is
\* None or names a missing file goes straight to the next device (or ends the
\* pass after the last one): no package query, uninstall, install or
\* set-owner, no exception and no kill-server.
C3_NoApkSkips ==
    [][\A w \in Threads :
        (pc[w] = "check_apk" /\ Steps(w) /\ ApkMissing) =>
            /\ pc'[w] = (IF idx[w] < Len(devices[w]) THEN "dumpsys" ELSE "idle")
            /\ idx'[w] = (IF idx[w] < Len(devices[w]) THEN idx[w] + 1 ELSE idx[w])
            /\ last'[w] \in {Ev("check_apk", "none"), Ev("log", "all_processed")}
            /\ cur'[w].kills = 0
            /\ devices'[w] = devices[w]]_vars

C3_Witness ==
    \E w \in Threads :
        /\ last[w] = Ev("check_apk", "none")
        /\ cur[w].first = "no_owner"
        /\ pc[w] = "dumpsys"
        /\ idx[w] = 2

C5_ExceptionEndsPass ==
    /\ [](\A w \in Threads :
            /\ (last[w][2] = "raise" /\ last[w][1] \in Unguarded) => pc[w] = "except"
            /\ last[w][1] = "handler_kill_server" => pc[w] = "idle")
    /\ [][\A w \in Threads :
            /\ (pc[w] = "except" /\ Steps(w)) =>
                /\ pc'[w] = "idle"
                /\ last'[w][1] = "handler_kill_server"
                /\ cur'[w].kills = cur[w].kills + 1
                /\ cur'[w].emits = cur[w].emits
                /\ idx'[w] = idx[w]
            /\ (pc[w] = "idle" /\ Steps(w)) => pc'[w] = "start"]_vars

C5_Witness ==
    \E w \in Threads :
        /\ last[w][1] = "handler_kill_server"
        /\ pc[w] = "idle"
        /\ idx[w] = 1
        /\ Len(devices[w]) = 2
        /\ cur[w].first = "no_owner"

\* C6: when the package query finds com.hmdm.launcher the next call is the
\* uninstall; after the uninstall, raised or not, the pass is at the push of
\* the same device with no kill-server attempted; and a push is only ever
\* preceded by a package query without the package or by an uninstall.
C6_UninstallBestEffort ==
    \A w \in Threads :
        /\ last[w] = Ev("pm_list", "pkg") => pc[w] = "uninstall"
        /\ last[w][1] = "uninstall" => (pc[w] = "push" /\ cur[w].kills = 0)
        /\ pc[w] = "push" =>
            last[w] \in {Ev("pm_list", "no_pkg"), Ev("uninstall", "ok"), Ev("uninstall", "raise")}

C6_Witness ==
    \E w \in Threads :
        /\ last[w] = Ev("uninstall", "raise")
        /\ pc[w] = "push"
        /\ Exists(local_path[w], files)

\* C7: run_command reads no variable a UI-thread handler writes during the
\* pass: the path it hands to install_apk_from_memory (line 284) is the
\* temp_apk_path it tested at line 267.
C7_NoSharedState ==
    \A w \in Threads :
        pc[w] = "push" => local_path[w] = apk_checked[w]

\* C8: when a pass has finished a device without an exception (it is on the
\* next device's first query, or has logged the final line), it has emitted
\* update_devices_signal exactly once for that device.
C8_SignalPerDevice ==
    \A w \in Threads :
        ((pc[w] = "dumpsys" /\ idx[w] > 1) \/ last[w] = Ev("log", "all_processed")) =>
            cur[w].emits = 1

\* C9: at most one run_command thread is alive at any time.
C9_OneWorker == Cardinality(Running) <= 1

\* C10: the command button is enabled only if temp_apk_path names a temporary
\* file that exists.
C10_ButtonImpliesApk ==
    command_button => (temp_apk_path # None /\ temp_apk_path \in files)

====
